---- MODULE Spec2Model ----
(***************************************************************************)
(* Skill-Swap server: the swap-request lifecycle, the rating ledger and    *)
(* the ban flag they depend on.                                            *)
(*                                                                         *)
(* Every Express handler is an async function: it runs up to an `await`,   *)
(* and other requests run in between.  A handler is modelled in two steps: *)
(*   <Op>Begin  - the middleware chain, the validators and every read and  *)
(*                check of the handler, which ends either in an error      *)
(*                response or in a request that is in flight, about to     *)
(*                write;                                                   *)
(*   <Op>Commit - the write (save / create / findByIdAndDelete) of an      *)
(*                in-flight request, and its response.                     *)
(* A response is the value of the handler's check (a refusal) or, for a     *)
(* request that got to its write, the value of the result operator of the  *)
(* commit.  A refused request returns before any write: it changes no      *)
(* variable, so it is a stuttering step and <Op>Begin is the step of a     *)
(* request whose check passes.                                             *)
(***************************************************************************)
(* The source holds two revisions of the swap routes (Routes/swaps.js lines *)
(* 1-378, on the models of database/init.js, and lines 380-683, on the      *)
(* models of models/*.js); a server runs one of them, fixed when it starts. *)
(*                                                                         *)
(* The specifications are the same machine under different workloads:      *)
(*   SpecLife     the swap and rating handlers, requests overlapping;      *)
(*   SpecLifeSeq  the same handlers, requests that never overlap;          *)
(*   SpecSkills   the offered and wanted skill associations.                *)
(***************************************************************************)
EXTENDS Integers, Sequences, FiniteSets, Bags, TLC

\* ---------------------------------------------------------------- bounds
MaxSwaps == 2        \* swap requests ever created
MaxRatings == 2      \* ratings ever created
MaxInFlight == 2     \* requests processed concurrently
MaxAssocs == 4
MaxMessages == 2       \* offered and wanted associations ever created

\* ------------------------------------------------------------- identities
Admin == "admin"
Users == {"admin", "u1", "u2"}      \* ObjectIds of the registered users
Skills == {"s1", "s2"}              \* ObjectIds of the skill catalog
Anon == "anon"                      \* a request without a bearer token
Callers == Users \cup {Anon}
Procs == 1..MaxInFlight
SwapIds == 1..MaxSwaps

\* An id as a client sends it: a 24-digit hex string in lower or upper case,
\* or a string that is no object id at all.  kind/oid stand for the string.
Lower(o) == <<"lc", o>>
Upper(o) == <<"uc", o>>
Malformed == <<"bad", "x">>
Ghost == "ghost"                    \* a well-formed id of no document

\* user._id as serialised into the JWT (ObjectId.toJSON -> lower-case hex).
toString(o) == Lower(o)

\* validator.js isMongoId: /^[0-9A-F]+$/i and length 24 (either case).
isMongoId(s) == s[1] \in {"lc", "uc"}

\* mongoose cast of a query/document value to ObjectId (case-insensitive).
CastObjectId(s) == s[2]

UserIdInputs == {Lower(u) : u \in Users} \cup {Upper(u) : u \in Users}
                  \cup {Lower(Ghost), Malformed}
SkillIdInputs == {Lower(s) : s \in Skills} \cup {Malformed}
MalformedSwapId == <<"bad", 0>>
SwapIdInputs == {Lower(i) : i \in SwapIds} \cup {MalformedSwapId}
BanInputs == {Lower("u2"), Lower(Admin), Lower(Ghost), Malformed}
IsBannedInputs == {"true", "false", "yes"}   \* JSON true, false, junk
ScoreInputs == {0, 1, 5, 6}
AddSkillInputs == SkillIdInputs \cup {Lower(Ghost)}
AssocIds == 1..MaxAssocs
MalformedAssocId == <<"bad", 0>>
AssocIdInputs == {Lower(a) : a \in AssocIds} \cup {MalformedAssocId}
Relations == {"offered", "wanted"}
MessageIds == 1..MaxMessages
MalformedMessageId == <<"bad", 0>>
MessageIdInputs == {Lower(m) : m \in MessageIds} \cup {MalformedMessageId}
TitleInputs == {"", "t"}                     \* empty after trim, or 1..100 long
IsActiveInputs == {"none", "true", "false", "yes"}   \* absent, JSON booleans, junk
ActiveInputs == {"none", "true", "false"}    \* the ?active= query parameter

\* Text as the sequence of its characters; the alphabet is cut to two
\* letters in both cases and one character that opens an unclosed group.
Names == {<<"A", "b">>, <<"b">>}
Locations == {<<"a">>, <<"B", "a">>}
NoText == <<>>                      \* '' or an absent query parameter
InvalidRegex == <<"(">>
SearchInputs == {NoText, <<"a">>, <<"B">>, InvalidRegex}
LocationInputs == {NoText, <<"b", "A">>, InvalidRegex}
SkillFilterInputs == {NoText, <<"A">>, <<"b">>, InvalidRegex}
PageInputs == {0, 1, 2}
LimitInputs == {1, 10}
undefined == <<"undefined">>        \* a field the request body does not carry
NameInputs == {undefined} \cup Names
LocationUpdates == {undefined} \cup Locations
\* is_public as a client sends it: absent, a JSON boolean, or a string (the
\* fields of a multipart form are strings).
IsPublicInputs == {"none", "true", "false", "'true'", "'false'", "'1'", "'0'",
                   "junk"}
NewUsers == {"u3"}                  \* an account that may be registered
Accounts == Users \cup NewUsers
ShortPassword == "12345"
PasswordInputs == {"", ShortPassword, "secret1", "secret2"}
AuthRoutes == {"server", "backend"}
StatusFilterInputs == {"", "pending", "accepted", "rejected"}
TypeInputs == {"all", "sent", "received"}
ListPageInputs == {1, 2}
DefaultLimit == 10
ListLimitInputs == {DefaultLimit, 1}
MinRating == 1
MaxRating == 5

\* swapRequestSchema.status enum.
StatusEnum == {"pending", "accepted", "rejected"}

\* The revisions of Routes/swaps.js: "init" requires database/init.js and
\* cancels with PUT /:swapId/cancel, "models" requires models/*.js and
\* cancels with DELETE /:swapId.
Revisions == {"init", "models"}

Idle == [op |-> "idle"]

VARIABLES
  revision,   \* the revision of the swap routes the server runs
  authRoutes, \* the auth routes the server runs: Routes/auth.js of server/
              \* or routes/auth.js of backend/
  banned,     \* users whose is_banned flag is set
  offered,    \* UserOfferedSkill collection: _id -> document
  wanted,     \* UserWantedSkill collection: _id -> document
  nextAssoc,  \* the _id the next created association document gets
  swaps,      \* SwapRequest collection: _id -> document
  nextSwap,   \* the _id the next created SwapRequest gets
  ratings,    \* Rating collection: a bag of documents (less their _id)
  profile,    \* User collection: _id -> name, location, is_public
  adminMessages, \* AdminMessage collection: _id -> document
  nextMessage,   \* the _id the next created AdminMessage gets
  inflight    \* per request slot: the request awaiting its write, or Idle

vars == <<profile, revision, authRoutes, banned, offered, wanted, nextAssoc, swaps, nextSwap,
          ratings, adminMessages, nextMessage, inflight>>
assocs == <<offered, wanted, nextAssoc>>
notices == <<adminMessages, nextMessage>>
store == <<profile, revision, authRoutes, banned, assocs, swaps, nextSwap, ratings,
           notices>>


\* ------------------------------------------------------------- middleware
\* authenticateToken then checkNotBanned.
authenticateToken(caller) == caller # Anon

\* checkNotBanned without the test of user.is_banned.
checkNotBannedFlagIgnored(caller) ==
  IF ~authenticateToken(caller) THEN "Unauthenticated"
  ELSE IF caller \notin Users THEN "UserNotFound"
  ELSE "next"

checkNotBanned(caller) ==
  IF ~authenticateToken(caller) THEN "Unauthenticated"
  ELSE IF caller \notin Users THEN "UserNotFound"
  ELSE IF caller \in banned THEN "Banned"
  ELSE "next"

NumInFlight(o) == Cardinality({p \in Procs : inflight[p].op = o})

\* The handler is suspended at the await of its write.
Await(p, req) == inflight' = [inflight EXCEPT ![p] = req]

\* The write has returned and the response is sent.
Done(p) == inflight' = [inflight EXCEPT ![p] = Idle]

\* ------------------------------------------------- POST /swaps  (create)
\* UserSkillOffered.findOne({user_id, skill_id}) finds a document.
Offers(user, skill) ==
  \E a \in DOMAIN offered :
    offered[a].user_id = user /\ offered[a].skill_id = skill

\* PendingBetween without the status of the query: any stored request from
\* the requester to the recipient.
PendingBetweenAnyStatus(requester, recipient) ==
  {i \in DOMAIN swaps : /\ swaps[i].requester_id = requester
                        /\ swaps[i].recipient_id = recipient}

PendingBetween(requester, recipient) ==
  {i \in DOMAIN swaps : /\ swaps[i].requester_id = requester
                        /\ swaps[i].recipient_id = recipient
                        /\ swaps[i].status = "pending"}

\* CreateCheck without the test of recipient.is_banned.
CreateCheckBanIgnored(caller, recipientId, offeredSkillId, requestedSkillId) ==
  IF checkNotBanned(caller) # "next" THEN checkNotBanned(caller)
  ELSE IF ~(isMongoId(recipientId) /\ isMongoId(offeredSkillId)
            /\ isMongoId(requestedSkillId)) THEN "ValidationError"
  ELSE IF toString(caller) = recipientId THEN "SelfSwap"
  ELSE IF CastObjectId(recipientId) \notin Users THEN "RecipientNotFound"
  ELSE IF ~Offers(caller, CastObjectId(offeredSkillId))
    THEN "OfferedSkillNotOwned"
  ELSE IF ~Offers(CastObjectId(recipientId), CastObjectId(requestedSkillId))
    THEN "RequestedSkillNotOffered"
  ELSE IF PendingBetween(caller, CastObjectId(recipientId)) # {}
    THEN "DuplicatePendingRequest"
  ELSE "next"

\* The validators and checks of the handler, in the order of the code; the
\* result is the response kind, or "next" when the handler goes on to create.
CreateCheck(caller, recipientId, offeredSkillId, requestedSkillId) ==
  IF checkNotBanned(caller) # "next" THEN checkNotBanned(caller)
  ELSE IF ~(isMongoId(recipientId) /\ isMongoId(offeredSkillId)
            /\ isMongoId(requestedSkillId)) THEN "ValidationError"
  ELSE IF toString(caller) = recipientId THEN "SelfSwap"
  ELSE IF CastObjectId(recipientId) \notin Users THEN "RecipientNotFound"
  ELSE IF CastObjectId(recipientId) \in banned THEN "RecipientBanned"
  ELSE IF ~Offers(caller, CastObjectId(offeredSkillId))
    THEN "OfferedSkillNotOwned"
  ELSE IF ~Offers(CastObjectId(recipientId), CastObjectId(requestedSkillId))
    THEN "RequestedSkillNotOffered"
  ELSE IF PendingBetween(caller, CastObjectId(recipientId)) # {}
    THEN "DuplicatePendingRequest"
  ELSE "next"

CreateBegin(p, caller, recipientId, offeredSkillId, requestedSkillId) ==
  /\ inflight[p] = Idle
  /\ nextSwap + NumInFlight("create") <= MaxSwaps
  /\ CreateCheck(caller, recipientId, offeredSkillId, requestedSkillId)
       = "next"
  /\ Await(p, [op |-> "create",
               requester_id |-> caller,
               recipient_id |-> CastObjectId(recipientId),
               offered_skill_id |-> CastObjectId(offeredSkillId),
               requested_skill_id |-> CastObjectId(requestedSkillId)])
  /\ UNCHANGED store

\* SwapRequest.create: the schema default gives status 'pending'; 201.
CreateCommit(p) ==
  /\ inflight[p].op = "create"
  /\ swaps' = swaps @@ (nextSwap :>
                 [requester_id |-> inflight[p].requester_id,
                  recipient_id |-> inflight[p].recipient_id,
                  offered_skill_id |-> inflight[p].offered_skill_id,
                  requested_skill_id |-> inflight[p].requested_skill_id,
                  status |-> "pending"])
  /\ nextSwap' = nextSwap + 1
  /\ Done(p)
  /\ UNCHANGED <<profile, notices, revision, authRoutes, banned, assocs, ratings>>

\* ------------------------------------------------- GET /my-requests
\* The middleware chain of the listing; the handler only reads.
MyRequestsCheck(caller) == checkNotBanned(caller)

\* A query that lists the requests of every user.
MyRequestsQueryAnyUser(i, userId, status, type) ==
  status # "" => swaps[i].status = status

\* query = { $or: [requester_id, recipient_id] }, replaced by one of the two
\* for type sent / received, and narrowed by status when one is sent.
MyRequestsQuery(i, userId, status, type) ==
  /\ IF type = "sent" THEN swaps[i].requester_id = userId
     ELSE IF type = "received" THEN swaps[i].recipient_id = userId
     ELSE swaps[i].requester_id = userId \/ swaps[i].recipient_id = userId
  /\ status # "" => swaps[i].status = status

\* sort({ created_at: -1 }): _ids are handed out in the order of creation,
\* so the newest document has the greatest _id.
SortNewestFirst(S) ==
  SelectSeq([k \in 1..(nextSwap - 1) |-> nextSwap - k], LAMBDA i : i \in S)

\* The requests of the response, as the sequence of their _ids.  The routes
\* on models/*.js page the list with skip and limit.
MyRequests(caller, status, type, page, limit) ==
  LET found == SortNewestFirst({i \in DOMAIN swaps :
                  MyRequestsQuery(i, caller, status, type)})
      skip == (page - 1) * limit
      last == IF skip + limit < Len(found) THEN skip + limit ELSE Len(found)
  IN  IF MyRequestsCheck(caller) # "next"
        THEN [status |-> MyRequestsCheck(caller), requests |-> <<>>]
      ELSE IF revision = "init"
        THEN [status |-> "Ok", requests |-> found]
      ELSE [status |-> "Ok", requests |-> SubSeq(found, skip + 1, last)]

\* ------------------------------- PUT /:swapId/accept, /reject, /cancel
\* findById(swapId), the ownership check and the pending-only guard; owner
\* is the field of the document the caller has to match.
TransitionCheck(caller, swapId, owner) ==
  IF checkNotBanned(caller) # "next" THEN checkNotBanned(caller)
  ELSE IF ~isMongoId(swapId) THEN "ServerError"        \* CastError, caught
  ELSE IF CastObjectId(swapId) \notin DOMAIN swaps THEN "NotFound"
  ELSE IF toString(swaps[CastObjectId(swapId)][owner]) # toString(caller)
    THEN "Forbidden"
  ELSE IF swaps[CastObjectId(swapId)].status # "pending"
    THEN "InvalidTransition"
  ELSE "next"

TransitionBegin(p, o, caller, swapId, owner) ==
  /\ inflight[p] = Idle
  /\ TransitionCheck(caller, swapId, owner) = "next"
  /\ Await(p, [op |-> o, swap_id |-> CastObjectId(swapId)])
  /\ UNCHANGED store

\* SaveStatus as an update of every stored request instead of the one read.
SaveStatusEveryRequest(p, o, st) ==
  /\ inflight[p].op = o
  /\ swaps' = IF st \in StatusEnum /\ inflight[p].swap_id \in DOMAIN swaps
                THEN [i \in DOMAIN swaps |-> [swaps[i] EXCEPT !.status = st]]
                ELSE swaps
  /\ Done(p)
  /\ UNCHANGED <<profile, notices, revision, authRoutes, banned, assocs, nextSwap, ratings>>

\* A save() that writes the status although validation refused it.
SaveStatusUnvalidated(p, o, st) ==
  /\ inflight[p].op = o
  /\ swaps' = IF inflight[p].swap_id \in DOMAIN swaps
                THEN [swaps EXCEPT ![inflight[p].swap_id].status = st]
                ELSE swaps
  /\ Done(p)
  /\ UNCHANGED <<profile, notices, revision, authRoutes, banned, assocs, nextSwap, ratings>>

\* swap.status = st; await swap.save(): the document read by findById is
\* validated against the schema and then written back with $set, whatever
\* the stored status has become meanwhile.  A status outside the enum is a
\* ValidationError and a document deleted meanwhile a DocumentNotFoundError;
\* the catch block answers both with 500.
SaveResult(p, st) ==
  IF st \notin StatusEnum \/ inflight[p].swap_id \notin DOMAIN swaps
    THEN "ServerError"
    ELSE "Ok"

SaveStatus(p, o, st) ==
  /\ inflight[p].op = o
  /\ swaps' = IF SaveResult(p, st) = "Ok"
                THEN [swaps EXCEPT ![inflight[p].swap_id].status = st]
                ELSE swaps
  /\ Done(p)
  /\ UNCHANGED <<profile, notices, revision, authRoutes, banned, assocs, nextSwap, ratings>>

AcceptCheck(caller, swapId) == TransitionCheck(caller, swapId, "recipient_id")
AcceptBegin(p, caller, swapId) ==
  TransitionBegin(p, "accept", caller, swapId, "recipient_id")
AcceptCommit(p) == SaveStatus(p, "accept", "accepted")

RejectCheck(caller, swapId) == TransitionCheck(caller, swapId, "recipient_id")
RejectBegin(p, caller, swapId) ==
  TransitionBegin(p, "reject", caller, swapId, "recipient_id")
RejectCommit(p) == SaveStatus(p, "reject", "rejected")

CancelCheck(caller, swapId) == TransitionCheck(caller, swapId, "requester_id")
CancelBegin(p, caller, swapId) ==
  /\ revision = "init"
  /\ TransitionBegin(p, "cancel", caller, swapId, "requester_id")
CancelCommit(p) == SaveStatus(p, "cancel", "cancelled")

\* ------------------------------------------- DELETE /:swapId  (cancel)
DeleteCheck(caller, swapId) == TransitionCheck(caller, swapId, "requester_id")
DeleteBegin(p, caller, swapId) ==
  /\ revision = "models"
  /\ TransitionBegin(p, "delete", caller, swapId, "requester_id")

\* SwapRequest.findByIdAndDelete(swapId); 200 whether or not it still exists.
DeleteCommit(p) ==
  /\ inflight[p].op = "delete"
  /\ swaps' = [i \in DOMAIN swaps \ {inflight[p].swap_id} |-> swaps[i]]
  /\ Done(p)
  /\ UNCHANGED <<profile, notices, revision, authRoutes, banned, assocs, nextSwap, ratings>>

\* ------------------------------------------------- POST /:swapId/rate
RatingsBy(swapId, rater) ==
  {r \in BagToSet(ratings) : r.swap_id = swapId /\ r.rater_id = rater}

\* Rating.countDocuments({swap_id, rater_id}).
CountRatingsBy(swapId, rater) ==
  BagCardinality([r \in RatingsBy(swapId, rater) |-> ratings[r]])

\* "Determine which user to rate": the counterparty field of the swap, or
\* "none" when the caller is neither requester nor recipient.
ratedUserId(swap, caller) ==
  IF toString(swap.requester_id) = toString(caller) THEN swap.recipient_id
  ELSE IF toString(swap.recipient_id) = toString(caller)
    THEN swap.requester_id
  ELSE "none"

\* RateCheck with the status guard refusing pending requests only.
RateCheckPendingOnly(caller, swapId, rating) ==
  IF checkNotBanned(caller) # "next" THEN checkNotBanned(caller)
  ELSE IF ~(rating >= MinRating /\ rating <= MaxRating)
    THEN "ValidationError"
  ELSE IF ~isMongoId(swapId) THEN "ServerError"
  ELSE IF CastObjectId(swapId) \notin DOMAIN swaps THEN "NotFound"
  ELSE IF swaps[CastObjectId(swapId)].status = "pending"
    THEN "InvalidState"
  ELSE IF ratedUserId(swaps[CastObjectId(swapId)], caller) = "none"
    THEN "Forbidden"
  ELSE IF revision = "init" THEN "ServerError"
  ELSE IF RatingsBy(CastObjectId(swapId), caller) # {}
    THEN "DuplicateRating"
  ELSE "next"

\* Revision "init" does not require the Rating model (swaps.js:14; revision
\* "models" does, swaps.js:386), so that its Rating.findOne throws a
\* ReferenceError, answered by the catch block.
RateCheck(caller, swapId, rating) ==
  IF checkNotBanned(caller) # "next" THEN checkNotBanned(caller)
  ELSE IF ~(rating >= MinRating /\ rating <= MaxRating)
    THEN "ValidationError"
  ELSE IF ~isMongoId(swapId) THEN "ServerError"
  ELSE IF CastObjectId(swapId) \notin DOMAIN swaps THEN "NotFound"
  ELSE IF swaps[CastObjectId(swapId)].status # "accepted"
    THEN "InvalidState"
  ELSE IF ratedUserId(swaps[CastObjectId(swapId)], caller) = "none"
    THEN "Forbidden"
  ELSE IF revision = "init" THEN "ServerError"
  ELSE IF RatingsBy(CastObjectId(swapId), caller) # {}
    THEN "DuplicateRating"
  ELSE "next"

RateBegin(p, caller, swapId, rating) ==
  /\ inflight[p] = Idle
  /\ BagCardinality(ratings) + NumInFlight("rate") < MaxRatings
  /\ RateCheck(caller, swapId, rating) = "next"
  /\ Await(p, [op |-> "rate",
               swap_id |-> CastObjectId(swapId),
               rater_id |-> caller,
               rated_user_id |->
                 ratedUserId(swaps[CastObjectId(swapId)], caller),
               rating |-> rating])
  /\ UNCHANGED store

\* Rating.create: ratingSchema declares no index, every insert succeeds; 201.
RateCommit(p) ==
  /\ inflight[p].op = "rate"
  /\ ratings' = ratings (+) SetToBag({[swap_id |-> inflight[p].swap_id,
                                       rater_id |-> inflight[p].rater_id,
                                       rated_user_id |->
                                         inflight[p].rated_user_id,
                                       rating |-> inflight[p].rating]})
  /\ Done(p)
  /\ UNCHANGED <<profile, notices, revision, authRoutes, banned, assocs, swaps, nextSwap>>

\* ------------------------------------- PUT /admin/users/:userId/ban
\* router.use(authenticateToken, requireAdmin), body('isBanned').isBoolean(),
\* the self-ban test on the id strings, then findByIdAndUpdate.
\* router.use(authenticateToken, requireAdmin) stands in front of every
\* route of the admin router; requireAdmin reads is_admin from the token.
\* A requireAdmin that lets every token holder pass.
requireAdminAnyToken(caller) ==
  IF ~authenticateToken(caller) THEN "Unauthenticated"
  ELSE "next"

requireAdmin(caller) ==
  IF ~authenticateToken(caller) THEN "Unauthenticated"
  ELSE IF caller # Admin THEN "Forbidden"
  ELSE "next"

BanCheck(caller, userId, isBanned) ==
  IF requireAdmin(caller) # "next" THEN requireAdmin(caller)
  ELSE IF isBanned \notin {"true", "false"} THEN "ValidationError"
  ELSE IF userId = toString(caller) THEN "SelfBan"
  ELSE IF ~isMongoId(userId) THEN "ServerError"       \* CastError, caught
  ELSE IF CastObjectId(userId) \notin Users THEN "NotFound"
  ELSE "Ok"

\* findByIdAndUpdate is a single storage operation: the handler has no await
\* between a read and a write.
Ban(caller, userId, isBanned) ==
  /\ BanCheck(caller, userId, isBanned) = "Ok"
  /\ banned' = IF isBanned = "true"
                 THEN banned \cup {CastObjectId(userId)}
                 ELSE banned \ {CastObjectId(userId)}
  /\ UNCHANGED <<profile, notices, revision, authRoutes, assocs, swaps, nextSwap, ratings, inflight>>

\* ------------------------------------------------ /admin/messages
\* GET /admin/users, /admin/stats, /admin/swaps, /admin/reports/*: reads.
AdminReadCheck(caller) ==
  IF requireAdmin(caller) # "next" THEN requireAdmin(caller) ELSE "Ok"

\* GET /admin/stats.  The names the admin routes import from database/init;
\* the handler also uses Skill, which is none of them (ReferenceError,
\* caught).
AdminImports == {"User", "SwapRequest", "AdminMessage", "Rating"}

RECURSIVE SumRatings(_)
SumRatings(S) ==
  IF S = {} THEN 0
  ELSE LET d == CHOOSE x \in S : TRUE
       IN  d.rating * CopiesIn(d, ratings) + SumRatings(S \ {d})

\* $group { _id: null, average: { $avg: '$rating' } }: no group when the
\* collection is empty; the average as the pair <<sum, count>> otherwise.
ratingStats ==
  IF BagCardinality(ratings) = 0 THEN <<>>
  ELSE <<[average |-> <<SumRatings(BagToSet(ratings)),
                        BagCardinality(ratings)>>]>>

CountSwaps(st) == Cardinality({i \in DOMAIN swaps : swaps[i].status = st})

GetStats(caller) ==
  IF requireAdmin(caller) # "next"
    THEN [status |-> requireAdmin(caller)]
  ELSE IF "Skill" \notin AdminImports
    THEN [status |-> "ServerError"]
  ELSE [status |-> "Ok",
        totalUsers |-> Cardinality(DOMAIN profile),
        bannedUsers |-> Cardinality(banned),
        totalSwaps |-> Cardinality(DOMAIN swaps),
        acceptedSwaps |-> CountSwaps("accepted"),
        pendingSwaps |-> CountSwaps("pending"),
        totalSkills |-> Cardinality(Skills),
        averageRating |-> IF Len(ratingStats) > 0
                            THEN ratingStats[1].average ELSE 0]

\* POST /admin/messages: AdminMessage.create with the schema's defaults.
CreateMessageCheck(caller, title) ==
  IF requireAdmin(caller) # "next" THEN requireAdmin(caller)
  ELSE IF title = "" THEN "ValidationError"
  ELSE "Ok"

CreateMessage(caller, title) ==
  /\ CreateMessageCheck(caller, title) = "Ok"
  /\ nextMessage <= MaxMessages
  /\ adminMessages' = [m \in DOMAIN adminMessages \cup {nextMessage} |->
        IF m = nextMessage THEN [is_active |-> TRUE] ELSE adminMessages[m]]
  /\ nextMessage' = nextMessage + 1
  /\ UNCHANGED <<profile, revision, authRoutes, banned, assocs, swaps, nextSwap, ratings,
                 inflight>>

\* PUT /admin/messages/:messageId with isActive the only field sent.
UpdateMessageCheck(caller, messageId, isActive) ==
  IF requireAdmin(caller) # "next" THEN requireAdmin(caller)
  ELSE IF isActive \notin {"none", "true", "false"} THEN "ValidationError"
  ELSE IF isActive = "none" THEN "NoFields"
  ELSE IF ~isMongoId(messageId) THEN "ServerError"     \* CastError, caught
  ELSE IF CastObjectId(messageId) \notin DOMAIN adminMessages THEN "NotFound"
  ELSE "Ok"

UpdateMessage(caller, messageId, isActive) ==
  /\ UpdateMessageCheck(caller, messageId, isActive) = "Ok"
  /\ adminMessages' = [adminMessages EXCEPT
        ![CastObjectId(messageId)].is_active = (isActive = "true")]
  /\ UNCHANGED <<profile, nextMessage, revision, authRoutes, banned, assocs, swaps, nextSwap,
                 ratings, inflight>>

\* DELETE /admin/messages/:messageId: findByIdAndDelete.
DeleteMessageCheck(caller, messageId) ==
  IF requireAdmin(caller) # "next" THEN requireAdmin(caller)
  ELSE IF ~isMongoId(messageId) THEN "ServerError"     \* CastError, caught
  ELSE IF CastObjectId(messageId) \notin DOMAIN adminMessages THEN "NotFound"
  ELSE "Ok"

DeleteMessage(caller, messageId) ==
  /\ DeleteMessageCheck(caller, messageId) = "Ok"
  /\ adminMessages' = [m \in DOMAIN adminMessages \ {CastObjectId(messageId)}
                         |-> adminMessages[m]]
  /\ UNCHANGED <<profile, nextMessage, revision, authRoutes, banned, assocs, swaps, nextSwap,
                 ratings, inflight>>

\* GET /admin/messages?active=...: the response, as the set of message _ids
\* on the first page (the default limit of 20 exceeds the collection here).
ActiveFilter(active) ==
  {m \in DOMAIN adminMessages :
     \/ active = "none"
     \/ adminMessages[m].is_active = (active = "true")}

GetMessages(caller, active) ==
  IF requireAdmin(caller) # "next"
    THEN [status |-> requireAdmin(caller), messages |-> {}]
    ELSE [status |-> "Ok", messages |-> ActiveFilter(active)]

\* ---------------------- POST /users/me/skills/offered, /me/skills/wanted
\* The collection of a relation.
Rel(rel) == IF rel = "offered" THEN offered ELSE wanted

\* findOne({user_id, skill_id}) on the collection of the relation.
Has(rel, user, skill) ==
  \E a \in DOMAIN Rel(rel) :
    Rel(rel)[a].user_id = user /\ Rel(rel)[a].skill_id = skill

\* The routes have authenticateToken in front and no validator.  The user
\* routes of revision "init" destructure UserOfferedSkill and UserWantedSkill
\* from database/init.js, which exports neither name: the first use of the
\* model throws a TypeError, answered by the catch block.
AddCheck(rel, caller, skillId) ==
  IF ~authenticateToken(caller) THEN "Unauthenticated"
  ELSE IF ~isMongoId(skillId) THEN "ServerError"       \* CastError, caught
  ELSE IF CastObjectId(skillId) \notin Skills THEN "SkillNotFound"
  ELSE IF revision = "init" THEN "ServerError"
  ELSE IF Has(rel, caller, CastObjectId(skillId))
    THEN "DuplicateAssociation"
  ELSE "next"

AddBegin(p, rel, caller, skillId) ==
  /\ inflight[p] = Idle
  /\ nextAssoc + NumInFlight("add") <= MaxAssocs
  /\ AddCheck(rel, caller, skillId) = "next"
  /\ Await(p, [op |-> "add", rel |-> rel, user_id |-> caller,
               skill_id |-> CastObjectId(skillId)])
  /\ UNCHANGED store

\* A collection without the unique index: every save() succeeds.
AddResultNoIndex(p) == "Ok"

\* save(): the unique index {user_id, skill_id} of the collection refuses a
\* second document of the pair (E11000, answered by the catch block).
AddResult(p) ==
  IF Has(inflight[p].rel, inflight[p].user_id, inflight[p].skill_id)
    THEN "ServerError"
    ELSE "Ok"

Inserted(rel, p) ==
  IF inflight[p].rel = rel /\ AddResult(p) = "Ok"
    THEN Rel(rel) @@ (nextAssoc :> [user_id |-> inflight[p].user_id,
                                    skill_id |-> inflight[p].skill_id])
    ELSE Rel(rel)

AddCommit(p) ==
  /\ inflight[p].op = "add"
  /\ offered' = Inserted("offered", p)
  /\ wanted' = Inserted("wanted", p)
  /\ nextAssoc' = IF AddResult(p) = "Ok" THEN nextAssoc + 1 ELSE nextAssoc
  /\ Done(p)
  /\ UNCHANGED <<profile, notices, revision, authRoutes, banned, swaps, nextSwap, ratings>>

\* ------------- DELETE /users/me/skills/offered/:skillId, /wanted/:skillId
\* findOneAndDelete({_id: skillId, user_id: req.user.id}).
RemoveCheck(rel, caller, assocId) ==
  IF ~authenticateToken(caller) THEN "Unauthenticated"
  ELSE IF revision = "init" THEN "ServerError"
  ELSE IF ~isMongoId(assocId) THEN "ServerError"       \* CastError, caught
  ELSE IF \/ CastObjectId(assocId) \notin DOMAIN Rel(rel)
          \/ Rel(rel)[CastObjectId(assocId)].user_id # caller
    THEN "NotFound"
  ELSE "Ok"

Removed(rel, target, assocId) ==
  IF rel = target
    THEN [a \in DOMAIN Rel(rel) \ {CastObjectId(assocId)} |-> Rel(rel)[a]]
    ELSE Rel(rel)

\* findOneAndDelete is a single storage operation.
Remove(rel, caller, assocId) ==
  /\ RemoveCheck(rel, caller, assocId) = "Ok"
  /\ offered' = Removed("offered", rel, assocId)
  /\ wanted' = Removed("wanted", rel, assocId)
  /\ UNCHANGED <<profile, notices, revision, authRoutes, banned, nextAssoc, swaps, nextSwap, ratings,
                 inflight>>

\* -------------------------------------------------------- bcrypt
\* bcrypt.hash and bcrypt.compare: a hash matches the password it was made of.
hash(password) == <<"hash", password>>
compare(password, hashed) == hashed = hash(password)

\* ----------------------------------------------------- PUT /auth/profile
\* Mongoose's cast of a value to Boolean; a value outside both lists is a
\* CastError.
castBoolean(v) ==
  IF v \in {"true", "'true'", "'1'"} THEN "true"
  ELSE IF v \in {"false", "'false'", "'0'"} THEN "false"
  ELSE "CastError"

\* JavaScript's Boolean(v): every non-empty string is truthy.
Boolean(v) == IF v = "false" THEN "false" ELSE "true"

\* The is_public of updateData.  Routes/auth.js hands the value sent to
\* mongoose, routes/auth.js of backend/ converts it with Boolean() first.
UpdateIsPublic(isPublic) ==
  IF authRoutes = "server" THEN castBoolean(isPublic)
  ELSE castBoolean(Boolean(isPublic))

ProfileUpdateCheck(caller, name, location, isPublic) ==
  IF ~authenticateToken(caller) THEN "Unauthenticated"
  ELSE IF authRoutes = "backend" /\ name = NoText THEN "ValidationError"
  ELSE IF name = undefined /\ location = undefined /\ isPublic = "none"
    THEN "NoFields"
  ELSE IF isPublic # "none" /\ UpdateIsPublic(isPublic) = "CastError"
    THEN "ServerError"
  ELSE IF caller \notin DOMAIN profile THEN "NotFound"
  ELSE "Ok"

\* findByIdAndUpdate(req.user.id, updateData): the fields sent are set.
UpdateProfile(caller, name, location, isPublic) ==
  /\ ProfileUpdateCheck(caller, name, location, isPublic) = "Ok"
  /\ profile' = [profile EXCEPT ![caller] =
        [@ EXCEPT
           !.name = IF name = undefined THEN @ ELSE name,
           !.location = IF location = undefined THEN @ ELSE location,
           !.is_public = IF isPublic = "none" THEN @
                         ELSE UpdateIsPublic(isPublic) = "true"]]
  /\ UNCHANGED <<revision, authRoutes, banned, assocs, swaps, nextSwap,
                 ratings, notices, inflight>>

\* ---------------------------------------------------- POST /auth/register
\* An account is named by its email address.  Routes/auth.js validates
\* nothing: an empty password or name fails the schema's required (caught).
RegisterCheck(email, password, name) ==
  IF authRoutes = "backend" /\ name = NoText THEN "ValidationError"
  ELSE IF authRoutes = "backend" /\ password \in {"", ShortPassword}
    THEN "ValidationError"
  ELSE IF email \in DOMAIN profile THEN "UserExists"
  ELSE IF password = "" \/ name = NoText THEN "ServerError"
  ELSE "Ok"

\* Register with the is_admin flag taken from the request instead of the
\* schema's default.
RegisterWithAdminFlag(email, password, name) ==
  /\ RegisterCheck(email, password, name) = "Ok"
  /\ profile' = [u \in DOMAIN profile \cup {email} |->
        IF u = email
          THEN [name |-> name, location |-> NoText, is_public |-> TRUE,
                password |-> hash(password), is_admin |-> TRUE]
          ELSE profile[u]]
  /\ UNCHANGED <<revision, authRoutes, banned, assocs, swaps, nextSwap,
                 ratings, notices, inflight>>

\* User.create with the schema's defaults for is_public, is_admin, is_banned.
Register(email, password, name) ==
  /\ RegisterCheck(email, password, name) = "Ok"
  /\ profile' = [u \in DOMAIN profile \cup {email} |->
        IF u = email
          THEN [name |-> name, location |-> NoText, is_public |-> TRUE,
                password |-> hash(password), is_admin |-> FALSE]
          ELSE profile[u]]
  /\ UNCHANGED <<revision, authRoutes, banned, assocs, swaps, nextSwap,
                 ratings, notices, inflight>>

\* ------------------------------------------------------- POST /auth/login
\* Routes/auth.js compares the password only when one is stored and one is
\* sent; routes/auth.js of backend/ requires a password and compares it.
validPassword(email, password) ==
  IF authRoutes = "server"
    THEN IF profile[email].password # "" /\ password # ""
           THEN compare(password, profile[email].password)
           ELSE TRUE
    ELSE compare(password, profile[email].password)

NoToken == <<>>

Login(email, password) ==
  IF authRoutes = "backend" /\ password = ""
    THEN [status |-> "ValidationError", token |-> NoToken]
  ELSE IF email \notin DOMAIN profile
    THEN [status |-> "InvalidCredentials", token |-> NoToken]
  ELSE IF email \in banned
    THEN [status |-> "Banned", token |-> NoToken]
  ELSE IF ~validPassword(email, password)
    THEN [status |-> "InvalidCredentials", token |-> NoToken]
  ELSE [status |-> "Ok", token |-> <<email, profile[email].is_admin>>]

\* ----------------------------------------------- PUT /auth/change-password
\* bcrypt throws on a password that was not sent (caught).
ChangePasswordCheck(caller, currentPassword, newPassword) ==
  IF ~authenticateToken(caller) THEN "Unauthenticated"
  ELSE IF caller \notin DOMAIN profile THEN "NotFound"
  ELSE IF currentPassword = "" THEN "ServerError"
  ELSE IF ~compare(currentPassword, profile[caller].password)
    THEN "WrongPassword"
  ELSE IF newPassword = "" THEN "ServerError"
  ELSE "Ok"

ChangePassword(caller, currentPassword, newPassword) ==
  /\ ChangePasswordCheck(caller, currentPassword, newPassword) = "Ok"
  /\ profile' = [profile EXCEPT ![caller].password = hash(newPassword)]
  /\ UNCHANGED <<revision, authRoutes, banned, assocs, swaps, nextSwap,
                 ratings, notices, inflight>>

\* ------------------------------------------------------ GET /users/browse
\* { $regex: pattern, $options: 'i' } and new RegExp(pattern, 'i') for a
\* pattern of plain letters: the text contains the pattern, case ignored.
toLowerCase(c) == IF c = "A" THEN "a" ELSE IF c = "B" THEN "b" ELSE c

RegexTest(pattern, text) ==
  \E i \in 0..(Len(text) - Len(pattern)) :
    \A j \in 1..Len(pattern) :
      toLowerCase(text[i + j]) = toLowerCase(pattern[j])

\* Skill.name of the catalog.
SkillName(s) == IF s = "s1" THEN <<"a", "b">> ELSE <<"b">>

\* The User collection in its natural order.
UserOrder == <<Admin, "u1", "u2">>

\* A browse query that forgets the is_public condition.
BrowseQueryAnyUser(u, search, location) ==
  /\ search # NoText =>
       \/ RegexTest(search, profile[u].name)
       \/ RegexTest(search, profile[u].location)
  /\ location # NoText => RegexTest(location, profile[u].location)

\* query = { is_public: true, $or: [name, location], location }.
BrowseQuery(u, search, location) ==
  /\ profile[u].is_public
  /\ search # NoText =>
       \/ RegexTest(search, profile[u].name)
       \/ RegexTest(search, profile[u].location)
  /\ location # NoText => RegexTest(location, profile[u].location)

\* User.find(query).skip(skip).limit(limit).
BrowsePage(search, location, page, limit) ==
  LET found == SelectSeq(UserOrder,
                 LAMBDA u : BrowseQuery(u, search, location))
      skip == (page - 1) * limit
      last == IF skip + limit < Len(found) THEN skip + limit ELSE Len(found)
  IN  SubSeq(found, skip + 1, last)

\* The users of an association populated with a public user and with a
\* skill whose name matches.
matchingUserIds(skill) ==
  {u \in Users : \E rel \in Relations : \E a \in DOMAIN Rel(rel) :
     /\ Rel(rel)[a].user_id = u
     /\ profile[u].is_public
     /\ RegexTest(skill, SkillName(Rel(rel)[a].skill_id))}

filteredUsers(search, location, skill, page, limit) ==
  IF skill = NoText THEN BrowsePage(search, location, page, limit)
  ELSE SelectSeq(BrowsePage(search, location, page, limit),
                 LAMBDA u : u \in matchingUserIds(skill))

\* The response: status, and the users listed.  A negative skip and a
\* pattern that is no regular expression are errors of the query; with the
\* models of database/init the first use of UserOfferedSkill throws.
Browse(search, location, skill, page, limit) ==
  IF \/ page < 1
     \/ InvalidRegex \in {search, location, skill}
    THEN [status |-> "ServerError", users |-> <<>>]
  ELSE IF /\ revision = "init"
          /\ \/ skill # NoText
             \/ BrowsePage(search, location, page, limit) # <<>>
    THEN [status |-> "ServerError", users |-> <<>>]
  ELSE [status |-> "Ok",
        users |-> filteredUsers(search, location, skill, page, limit)]

\* ---------------------------------------------------------- GET /users/:id
ProfileLookup(id) ==
  IF ~isMongoId(id) THEN "ServerError"                \* CastError, caught
  ELSE IF CastObjectId(id) \notin Users THEN "NotFound"
  ELSE IF ~profile[CastObjectId(id)].is_public THEN "NotFound"
  ELSE IF revision = "init" THEN "ServerError"
  ELSE "Ok"

\* Accounts as registration leaves them: is_public defaults to true.
InitProfile ==
  [u \in Users |-> [name |-> <<"A", "b">>, location |-> <<"a">>,
                    is_public |-> TRUE, password |-> hash("secret1"),
                    is_admin |-> (u = Admin)]]

\* ------------------------------------------------------------ behaviours
\* Either revision started on a database of the admin and two members, two
\* of them offering one skill; nobody banned, no swap requested yet.
InitLife ==
  /\ revision \in Revisions
  /\ authRoutes = "server"
  /\ profile = InitProfile
  /\ banned = {}
  /\ offered = <<[user_id |-> "u1", skill_id |-> "s1"],
                 [user_id |-> "u2", skill_id |-> "s2"]>>
  /\ wanted = <<>>
  /\ nextAssoc = 3
  /\ swaps = <<>>
  /\ nextSwap = 1
  /\ ratings = EmptyBag
  /\ adminMessages = <<>>
  /\ nextMessage = 1
  /\ inflight = [p \in Procs |-> Idle]

\* Request slots are interchangeable: a new request takes the first idle one.
FirstIdle(p) == /\ inflight[p] = Idle
                /\ \A q \in Procs : q < p => inflight[q] # Idle

BeginLife(p) ==
  \/ \E c \in Callers, r \in UserIdInputs, o \in SkillIdInputs,
        q \in SkillIdInputs : CreateBegin(p, c, r, o, q)
  \/ \E c \in Callers, i \in SwapIdInputs : AcceptBegin(p, c, i)
  \/ \E c \in Callers, i \in SwapIdInputs : RejectBegin(p, c, i)
  \/ \E c \in Callers, i \in SwapIdInputs : CancelBegin(p, c, i)
  \/ \E c \in Callers, i \in SwapIdInputs : DeleteBegin(p, c, i)
  \/ \E c \in Callers, i \in SwapIdInputs, n \in ScoreInputs :
       RateBegin(p, c, i, n)

CommitLife(p) ==
  \/ CreateCommit(p)
  \/ AcceptCommit(p)
  \/ RejectCommit(p)
  \/ CancelCommit(p)
  \/ DeleteCommit(p)
  \/ RateCommit(p)

\* The moderation the lifecycle is exposed to: the admin bans and unbans.
BanLife == \E c \in Callers, u \in BanInputs, b \in IsBannedInputs : Ban(c, u, b)

NextLife ==
  \/ \E p \in Procs : (FirstIdle(p) /\ BeginLife(p)) \/ CommitLife(p)
  \/ BanLife

SpecLife == InitLife /\ [][NextLife]_vars

\* Requests that never overlap: one starts only when none is in flight.
AllIdle == \A p \in Procs : inflight[p] = Idle

NextLifeSeq ==
  \/ \E p \in Procs :
       (AllIdle /\ FirstIdle(p) /\ BeginLife(p)) \/ CommitLife(p)
  \/ AllIdle /\ BanLife

SpecLifeSeq == InitLife /\ [][NextLifeSeq]_vars

\* The skill ledger: members add and remove associations, requests
\* overlapping, while the admin bans and unbans.
BeginSkills(p) ==
  \E rel \in Relations, c \in Callers, k \in AddSkillInputs :
    AddBegin(p, rel, c, k)

RemoveSkills ==
  \E rel \in Relations, c \in Callers, a \in AssocIdInputs :
    Remove(rel, c, a)

NextSkills ==
  \/ \E p \in Procs : (FirstIdle(p) /\ BeginSkills(p)) \/ AddCommit(p)
  \/ RemoveSkills
  \/ BanLife

SpecSkills == InitLife /\ [][NextSkills]_vars

\* The admin router: every caller sends every admin request, ids in either
\* case; requests do not overlap (each handler is one storage operation).
BanAdmin ==
  \E c \in Callers, u \in UserIdInputs, b \in IsBannedInputs : Ban(c, u, b)

NextAdmin ==
  \/ BanAdmin
  \/ \E c \in Callers, t \in TitleInputs : CreateMessage(c, t)
  \/ \E c \in Callers, m \in MessageIdInputs, a \in IsActiveInputs :
       UpdateMessage(c, m, a)
  \/ \E c \in Callers, m \in MessageIdInputs : DeleteMessage(c, m)

SpecAdmin == InitLife /\ [][NextAdmin]_vars

\* The directory: members edit their profiles and remove associations
\* while anyone browses; one member also wants a skill.
InitBrowse ==
  /\ revision \in Revisions
  /\ authRoutes \in AuthRoutes
  /\ profile = InitProfile
  /\ banned = {}
  /\ offered = <<[user_id |-> "u1", skill_id |-> "s1"],
                 [user_id |-> "u2", skill_id |-> "s2"]>>
  /\ wanted = (3 :> [user_id |-> Admin, skill_id |-> "s2"])
  /\ nextAssoc = 4
  /\ swaps = <<>>
  /\ nextSwap = 1
  /\ ratings = EmptyBag
  /\ adminMessages = <<>>
  /\ nextMessage = 1
  /\ inflight = [p \in Procs |-> Idle]

NextBrowse ==
  \/ \E c \in Callers, n \in NameInputs, l \in LocationUpdates,
        b \in IsPublicInputs : UpdateProfile(c, n, l, b)
  \/ RemoveSkills

SpecBrowse == InitBrowse /\ [][NextBrowse]_vars

\* The listing: requests are created and settled one at a time while the
\* admin bans and unbans; nobody rates.
BeginListing(p) ==
  \/ \E c \in Callers, r \in UserIdInputs, o \in SkillIdInputs,
        q \in SkillIdInputs : CreateBegin(p, c, r, o, q)
  \/ \E c \in Callers, i \in SwapIdInputs : AcceptBegin(p, c, i)
  \/ \E c \in Callers, i \in SwapIdInputs : RejectBegin(p, c, i)
  \/ \E c \in Callers, i \in SwapIdInputs : DeleteBegin(p, c, i)

CommitListing(p) ==
  \/ CreateCommit(p)
  \/ AcceptCommit(p)
  \/ RejectCommit(p)
  \/ DeleteCommit(p)

NextListing ==
  \/ \E p \in Procs :
       (AllIdle /\ FirstIdle(p) /\ BeginListing(p)) \/ CommitListing(p)
  \/ AllIdle /\ BanLife

SpecListing == InitLife /\ [][NextListing]_vars

\* Every writing operation.  The two ledgers are explored one at a time to
\* bound the search: swap requests are created, settled and rated while the
\* skill ledger is as it started, and associations are added and removed,
\* requests overlapping, while no swap request has been created.
LedgerUntouched ==
  /\ nextAssoc = 3
  /\ DOMAIN offered = {1, 2}
  /\ \A p \in Procs : inflight[p].op # "add"

LifeUntouched ==
  /\ nextSwap = 1
  /\ \A p \in Procs : inflight[p].op \in {"idle", "add"}

NextFrame ==
  \/ LedgerUntouched /\ NextLifeSeq
  \/ LifeUntouched /\ NextSkills

SpecFrame == InitLife /\ [][NextFrame]_vars

\* Swap requests and the skills they name: requests are created and settled
\* one at a time, and between two of them a user may remove an association.
NextPending ==
  \/ NextLifeSeq
  \/ AllIdle /\ RemoveSkills

SpecPending == InitLife /\ [][NextPending]_vars

\* The accounts: people register, change their password and their name and
\* visibility, and the admin bans and unbans, on either set of auth routes.
InitAuth ==
  /\ revision = "models"
  /\ authRoutes \in AuthRoutes
  /\ profile = InitProfile
  /\ banned = {}
  /\ offered = <<[user_id |-> "u1", skill_id |-> "s1"],
                 [user_id |-> "u2", skill_id |-> "s2"]>>
  /\ wanted = <<>>
  /\ nextAssoc = 3
  /\ swaps = <<>>
  /\ nextSwap = 1
  /\ ratings = EmptyBag
  /\ adminMessages = <<>>
  /\ nextMessage = 1
  /\ inflight = [p \in Procs |-> Idle]

NextAuth ==
  \/ \E e \in Accounts, w \in PasswordInputs, n \in Names \cup {NoText} :
       Register(e, w, n)
  \/ \E c \in Accounts \cup {Anon}, w \in PasswordInputs,
        v \in {"", "secret2"} : ChangePassword(c, w, v)
  \/ \E c \in Accounts \cup {Anon}, n \in NameInputs,
        b \in {"none", "true", "false"} : UpdateProfile(c, n, undefined, b)
  \/ BanLife

SpecAuth == InitAuth /\ [][NextAuth]_vars

\* ---------------------------------------------------------------- claims
WellFormed(S) == {x \in S : isMongoId(x)}
ValidScores == {n \in ScoreInputs : n >= MinRating /\ n <= MaxRating}
Created == 1..(nextSwap - 1)           \* ids of the requests ever created

\* The check of the cancel route of the running revision.
CancelRouteCheck(caller, swapId) ==
  IF revision = "init" THEN CancelCheck(caller, swapId)
  ELSE DeleteCheck(caller, swapId)

\* The response of the write of an in-flight accept, reject or cancel.
TransitionResult(p) ==
  CASE inflight[p].op = "accept" -> SaveResult(p, "accepted")
    [] inflight[p].op = "reject" -> SaveResult(p, "rejected")
    [] inflight[p].op = "cancel" -> SaveResult(p, "cancelled")
    [] inflight[p].op = "delete" -> "Ok"
    [] OTHER -> "none"

TransitionCommit(p) ==
  AcceptCommit(p) \/ RejectCommit(p) \/ CancelCommit(p) \/ DeleteCommit(p)

\* A stored swap request between two different users.
Proper(i) ==
  i \in DOMAIN swaps /\ swaps[i].requester_id # swaps[i].recipient_id

\* C1: of the accept, reject and cancel requests processed concurrently on
\* one pending swap request between two users at most one reports success:
\* a transition that reports success finds the status still pending, so
\* that it never overwrites the status written by a winner.
C1_OneTransitionWins ==
  [][\A p \in Procs :
       ( /\ TransitionCommit(p)
         /\ TransitionResult(p) = "Ok"
         /\ Proper(inflight[p].swap_id) )
         => swaps[inflight[p].swap_id].status = "pending"]_vars

\* C2: in a history without overlapping requests, a successful accept,
\* reject or cancel leaves the swap request (between two users) stored with
\* a terminal status; on a stored request that is no longer pending a later
\* accept or reject by its recipient or cancel by its requester yields
\* InvalidTransition, and its status never changes again.
C2_TerminalIsFinal ==
  /\ [](\A i \in DOMAIN swaps :
          (Proper(i) /\ swaps[i].status # "pending") =>
            /\ swaps[i].status \in {"accepted", "rejected", "cancelled"}
            /\ \A c \in {swaps[i].recipient_id} \ banned :
                 /\ AcceptCheck(c, Lower(i)) = "InvalidTransition"
                 /\ RejectCheck(c, Lower(i)) = "InvalidTransition"
            /\ \A c \in {swaps[i].requester_id} \ banned :
                 CancelRouteCheck(c, Lower(i)) = "InvalidTransition")
  /\ [][\A p \in Procs :
          ( /\ TransitionCommit(p)
            /\ TransitionResult(p) = "Ok"
            /\ Proper(inflight[p].swap_id) )
            => /\ inflight[p].swap_id \in DOMAIN swaps'
               /\ swaps'[inflight[p].swap_id].status
                    \in {"accepted", "rejected", "cancelled"}]_vars
  /\ [][\A i \in DOMAIN swaps :
          (Proper(i) /\ swaps[i].status # "pending") =>
            /\ i \in DOMAIN swaps'
            /\ swaps'[i].status = swaps[i].status]_vars

\* C3: at most one pending swap request is stored for any ordered pair of
\* a requester and another user as recipient, also after concurrently
\* processed creates; while one is stored, a create of its requester to its
\* recipient is refused, with DuplicatePendingRequest whichever of the
\* skills that pass the skill checks it names.
C3_OnePendingPerPair ==
  /\ \A a \in Users, b \in Users :
       a # b => Cardinality(PendingBetween(a, b)) <= 1
  /\ \A c \in Users \ banned, r \in WellFormed(UserIdInputs),
        o \in WellFormed(SkillIdInputs), q \in WellFormed(SkillIdInputs) :
       (c # CastObjectId(r) /\ PendingBetween(c, CastObjectId(r)) # {}) =>
         /\ CreateCheck(c, r, o, q) # "next"
         /\ ( /\ CastObjectId(r) \notin banned
              /\ Offers(c, CastObjectId(o))
              /\ Offers(CastObjectId(r), CastObjectId(q)) )
              => CreateCheck(c, r, o, q) = "DuplicatePendingRequest"

\* C4: at most one rating is stored for any rater of a swap request between
\* two users, also after concurrently processed rate requests; a further
\* rate request of a rater on an accepted swap request they have rated
\* yields DuplicateRating.
C4_OneRatingPerRater ==
  \A i \in DOMAIN swaps : Proper(i) =>
    /\ \A u \in Users : CountRatingsBy(i, u) <= 1
    /\ \A c \in Users \ banned, n \in ValidScores :
         (swaps[i].status = "accepted" /\ RatingsBy(i, c) # {})
           => RateCheck(c, Lower(i), n) = "DuplicateRating"

\* C5 as claimed: on a stored swap request whose status is not accepted,
\* every rating submission, by any caller and with any score, yields
\* InvalidState.
C5_AnySubmissionInvalidState ==
  \A i \in DOMAIN swaps, c \in Callers, n \in ScoreInputs :
    swaps[i].status # "accepted" => RateCheck(c, Lower(i), n) = "InvalidState"

\* C5 as amended: on a stored swap request whose status is not accepted,
\* every rating submission with a score in 1..5 by a caller who passes
\* authentication and the ban check yields InvalidState, and a submission
\* with any score by any caller is refused; a rating is stored only by the
\* write of a submission that found its swap request accepted.
C5_RateNeedsAccepted ==
  /\ [](\A i \in DOMAIN swaps, c \in Callers, n \in ScoreInputs :
          swaps[i].status # "accepted" =>
            /\ RateCheck(c, Lower(i), n) # "next"
            /\ (checkNotBanned(c) = "next" /\ n \in ValidScores)
                 => RateCheck(c, Lower(i), n) = "InvalidState")
  /\ [][\A p \in Procs :
          (inflight[p].op # "rate" /\ inflight'[p].op = "rate") =>
            /\ inflight'[p].swap_id \in DOMAIN swaps
            /\ swaps[inflight'[p].swap_id].status = "accepted"]_vars
  /\ [][ratings' # ratings =>
          \E p \in Procs : inflight[p].op = "rate" /\ RateCommit(p)]_vars

\* A rejected swap request whose requester is refused with InvalidState and
\* whose banned recipient with Banned, next to an accepted one that has been
\* rated.
C5_Witness ==
  /\ \E i \in DOMAIN swaps :
       /\ swaps[i].status = "rejected"
       /\ RateCheck(swaps[i].requester_id, Lower(i), MaxRating) = "InvalidState"
       /\ swaps[i].recipient_id \in banned
       /\ RateCheck(swaps[i].recipient_id, Lower(i), MaxRating) = "Banned"
  /\ ratings # EmptyBag

\* C6: a rating submission by a caller who is neither requester nor
\* recipient of the swap request yields Forbidden (on an accepted request:
\* on any other one every submission yields InvalidState, C5); for every
\* stored rating the rater is one of the two participants of its swap
\* request and the rated user is the other one.
C6_RatingBetweenParticipants ==
  /\ \A i \in DOMAIN swaps, c \in Users \ banned, n \in ValidScores :
       ( /\ swaps[i].status = "accepted"
         /\ c \notin {swaps[i].requester_id, swaps[i].recipient_id} )
         => RateCheck(c, Lower(i), n) = "Forbidden"
  /\ \A r \in BagToSet(ratings) :
       r.swap_id \in DOMAIN swaps =>
         LET sw == swaps[r.swap_id] IN
           /\ r.rater_id \in {sw.requester_id, sw.recipient_id}
           /\ r.rated_user_id
                \in {sw.requester_id, sw.recipient_id} \ {r.rater_id}

\* The checks of the creation contract, in the order of the contract, on the
\* users and skills the request names: the first condition violated, or
\* "next" when none is.
FirstViolated(requester, recipient, offeredSkill, requestedSkill) ==
  IF requester = recipient THEN "SelfSwap"
  ELSE IF recipient \notin Users THEN "RecipientNotFound"
  ELSE IF recipient \in banned THEN "RecipientBanned"
  ELSE IF ~Offers(requester, offeredSkill)
    THEN "OfferedSkillNotOwned"
  ELSE IF ~Offers(recipient, requestedSkill)
    THEN "RequestedSkillNotOffered"
  ELSE IF PendingBetween(requester, recipient) # {}
    THEN "DuplicatePendingRequest"
  ELSE "next"

\* C7: creation reports the earliest violated check of SelfSwap,
\* RecipientNotFound, RecipientBanned, OfferedSkillNotOwned,
\* RequestedSkillNotOffered, DuplicatePendingRequest, and when none is
\* violated it creates the request: its write adds exactly one swap request,
\* with status pending.
C7_ChecksInOrder ==
  /\ [](\A c \in Users \ banned, r \in WellFormed(UserIdInputs),
           o \in WellFormed(SkillIdInputs), q \in WellFormed(SkillIdInputs) :
          CreateCheck(c, r, o, q)
            = FirstViolated(c, CastObjectId(r), CastObjectId(o),
                            CastObjectId(q)))
  /\ [][\A p \in Procs : CreateCommit(p) =>
          /\ DOMAIN swaps' = DOMAIN swaps \cup {nextSwap}
          /\ nextSwap \notin DOMAIN swaps
          /\ swaps'[nextSwap].status = "pending"
          /\ \A i \in DOMAIN swaps : swaps'[i] = swaps[i]]_vars

\* C8: a creation attempt whose recipient is the caller is refused with
\* SelfSwap whatever its other fields, so that no stored swap request has its
\* requester as its recipient.
C8_NoSelfSwap ==
  \A i \in DOMAIN swaps : swaps[i].requester_id # swaps[i].recipient_id

\* An id that resolves to no swap request.
Unresolved(swapId) ==
  ~isMongoId(swapId) \/ CastObjectId(swapId) \notin DOMAIN swaps

\* C9: accept and reject by a caller other than the recipient and cancel by
\* a caller other than the requester yield Forbidden; an id that resolves
\* to no swap request yields NotFound.
C9_OnlyOwnerTransitions ==
  /\ \A i \in DOMAIN swaps, c \in Users \ banned :
       /\ c # swaps[i].recipient_id =>
            /\ AcceptCheck(c, Lower(i)) = "Forbidden"
            /\ RejectCheck(c, Lower(i)) = "Forbidden"
       /\ c # swaps[i].requester_id =>
            CancelRouteCheck(c, Lower(i)) = "Forbidden"
  /\ \A x \in SwapIdInputs, c \in Users \ banned :
       Unresolved(x) =>
         /\ AcceptCheck(c, x) = "NotFound"
         /\ RejectCheck(c, x) = "NotFound"
         /\ CancelRouteCheck(c, x) = "NotFound"

\* C10: the cancel of a pending swap request (between two users) by its
\* requester, who is not banned, succeeds and leaves the request stored with
\* status cancelled.
C10_CancelStoresCancelled ==
  [][\A p \in Procs :
       ((CancelCommit(p) \/ DeleteCommit(p)) /\ Proper(inflight[p].swap_id))
         => /\ TransitionResult(p) = "Ok"
            /\ inflight[p].swap_id \in DOMAIN swaps'
            /\ swaps'[inflight[p].swap_id].status = "cancelled"]_vars

C12_BannedUserRefused ==
  \A c \in banned :
    /\ \A r \in UserIdInputs, o \in SkillIdInputs, q \in SkillIdInputs :
         CreateCheck(c, r, o, q) = "Banned"
    /\ \A x \in SwapIdInputs :
         /\ AcceptCheck(c, x) = "Banned"
         /\ RejectCheck(c, x) = "Banned"
         /\ CancelCheck(c, x) = "Banned"
         /\ DeleteCheck(c, x) = "Banned"
         /\ \A n \in ScoreInputs : RateCheck(c, x, n) = "Banned"
    /\ MyRequestsCheck(c) = "Banned"

\* u2 has been banned while a pending request to u2 and an accepted request
\* of u2 are stored: u2 can neither accept the one nor rate the other.
C12_Witness ==
  /\ "u2" \in banned
  /\ \E i \in DOMAIN swaps :
       /\ swaps[i].recipient_id = "u2"
       /\ swaps[i].status = "pending"
       /\ AcceptCheck("u2", Lower(i)) = "Banned"
  /\ \E i \in DOMAIN swaps :
       /\ swaps[i].requester_id = "u2"
       /\ swaps[i].status = "accepted"
       /\ RateCheck("u2", Lower(i), MaxRating) = "Banned"

\* C13: a user whose ban flag is set is treated as banned on the next call
\* of any operation that requires a token: no add of a skill association by
\* them is admitted to its write and no remove by them deletes.
C13_BannedOnEveryOperation ==
  [][\A c \in banned :
       /\ \A p \in Procs, rel \in Relations, k \in AddSkillInputs :
            ~AddBegin(p, rel, c, k)
       /\ \A rel \in Relations, a \in AssocIdInputs :
            ~Remove(rel, c, a)]_vars

\* C14: a ban or unban request of the admin that names the admin's own
\* account (its id as the token carries it: SelfBan; in any spelling: no
\* write) is refused and never changes the admin's flag; one
\* whose id is the id of no user answers NotFound; every other one sets the
\* target's flag to the requested value and changes no other user.
C14_BanContract ==
  /\ [](\A u \in WellFormed(UserIdInputs), b \in {"true", "false"} :
          /\ u = toString(Admin) => BanCheck(Admin, u, b) = "SelfBan"
          /\ CastObjectId(u) \notin Users => BanCheck(Admin, u, b) = "NotFound")
  /\ [][\A u \in UserIdInputs, b \in IsBannedInputs :
          Ban(Admin, u, b) =>
            /\ CastObjectId(u) # Admin
            /\ (Admin \in banned') = (Admin \in banned)
            /\ (CastObjectId(u) \in banned') = (b = "true")
            /\ \A o \in Users \ {CastObjectId(u)} :
                 (o \in banned') = (o \in banned)]_vars

\* C15: a caller who is not the admin, with or without a token, is refused
\* every admin operation (ban and unban, the admin's reads, creating, editing
\* and deleting messages), and no step of such a caller is a write to the
\* ban flags or the messages.
Refusals == {"Unauthenticated", "Forbidden"}

C15_AdminOnly ==
  /\ [](\A c \in Callers \ {Admin} :
          /\ AdminReadCheck(c) \in Refusals
          /\ \A a \in ActiveInputs : GetMessages(c, a).status \in Refusals
          /\ \A u \in UserIdInputs, b \in IsBannedInputs :
               BanCheck(c, u, b) \in Refusals
          /\ \A t \in TitleInputs : CreateMessageCheck(c, t) \in Refusals
          /\ \A m \in MessageIdInputs, a \in IsActiveInputs :
               UpdateMessageCheck(c, m, a) \in Refusals
          /\ \A m \in MessageIdInputs : DeleteMessageCheck(c, m) \in Refusals)
  /\ [][\A c \in Callers \ {Admin} :
          /\ \A u \in UserIdInputs, b \in IsBannedInputs : ~Ban(c, u, b)
          /\ \A t \in TitleInputs : ~CreateMessage(c, t)
          /\ \A m \in MessageIdInputs, a \in IsActiveInputs :
               ~UpdateMessage(c, m, a)
          /\ \A m \in MessageIdInputs : ~DeleteMessage(c, m)]_vars

\* A message the admin may delete and a member may not, a member the admin
\* may unban and another member may not.
C15_Witness ==
  /\ \E m \in DOMAIN adminMessages :
       /\ DeleteMessageCheck(Admin, Lower(m)) = "Ok"
       /\ DeleteMessageCheck("u1", Lower(m)) = "Forbidden"
       /\ UpdateMessageCheck(Anon, Lower(m), "false") = "Unauthenticated"
  /\ "u2" \in banned
  /\ BanCheck(Admin, Lower("u2"), "false") = "Ok"
  /\ BanCheck("u1", Lower("u2"), "false") = "Forbidden"

\* C16: every client, members and clients without a token included, can
\* read the active messages: each message whose is_active flag is true is
\* returned to each caller of the query, and nothing else is.
C16_ActiveMessagesPublic ==
  /\ \A m \in DOMAIN adminMessages : adminMessages[m].is_active =>
       \A c \in Callers :
         /\ GetMessages(c, "true").status = "Ok"
         /\ m \in GetMessages(c, "true").messages
  /\ \A c \in Callers : GetMessages(c, "true").status = "Ok" =>
       GetMessages(c, "true").messages =
         {m \in DOMAIN adminMessages : adminMessages[m].is_active}

\* C17: for every user U and skill id k sent to "add offered": when k
\* resolves to no skill the answer is SkillNotFound; when U already offers the
\* skill the answer is DuplicateAssociation and nothing is written; when U
\* does not offer it (never did, or removed it) the add is admitted.
ResolvesToSkill(k) == isMongoId(k) /\ CastObjectId(k) \in Skills

C17_AddOfferedContract ==
  /\ [](\A u \in Users, k \in AddSkillInputs :
          /\ ~ResolvesToSkill(k) => AddCheck("offered", u, k) = "SkillNotFound"
          /\ ResolvesToSkill(k) /\ Has("offered", u, CastObjectId(k)) =>
               AddCheck("offered", u, k) = "DuplicateAssociation"
          /\ ResolvesToSkill(k) /\ ~Has("offered", u, CastObjectId(k)) =>
               AddCheck("offered", u, k) = "next")
  /\ [][\A p \in Procs, u \in Users, k \in WellFormed(AddSkillInputs) :
          Has("offered", u, CastObjectId(k)) => ~AddBegin(p, "offered", u, k)]_vars

\* C18: in every reachable state, requests of one user overlapping or not,
\* the offered and the wanted relation each hold at most one association per
\* (user, skill) pair.
C18_OneAssociationPerPair ==
  \A rel \in Relations : \A a \in DOMAIN Rel(rel), b \in DOMAIN Rel(rel) :
    (Rel(rel)[a].user_id = Rel(rel)[b].user_id
       /\ Rel(rel)[a].skill_id = Rel(rel)[b].skill_id) => a = b

\* Two adds of one pair overlapped: both passed the findOne test, the first
\* has saved, the second is about to and will be refused by the index.
C18_Witness ==
  \E p \in Procs :
    /\ inflight[p].op = "add"
    /\ AddResult(p) = "ServerError"
    /\ nextAssoc > 3

\* C19: a remove request deletes an association only when the caller owns
\* it: naming an association that does not exist or that another user owns
\* is answered NotFound, and a remove step deletes exactly the named
\* association of the caller and nothing else in either relation.
Owns(rel, user, assocId) ==
  /\ isMongoId(assocId)
  /\ CastObjectId(assocId) \in DOMAIN Rel(rel)
  /\ Rel(rel)[CastObjectId(assocId)].user_id = user

C19_RemoveOnlyOwn ==
  /\ [](\A rel \in Relations, c \in Users, a \in AssocIdInputs :
          ~Owns(rel, c, a) => RemoveCheck(rel, c, a) = "NotFound")
  /\ [][\A rel \in Relations, c \in Callers, a \in AssocIdInputs :
          Remove(rel, c, a) =>
            /\ Owns(rel, c, a)
            /\ \A o \in Relations : \A x \in DOMAIN Rel(o) :
                 (o # rel \/ x # CastObjectId(a)) =>
                   /\ x \in DOMAIN Removed(o, rel, a)
                   /\ Removed(o, rel, a)[x] = Rel(o)[x]]_vars

\* C20: whatever search, location, skill filter and page are sent, every
\* user the browse query lists has is_public true, and the profile lookup of
\* a user whose is_public is false, the id in either spelling, answers
\* NotFound.
Listed(S) == {S[i] : i \in DOMAIN S}

C20_PrivateProfilesHidden ==
  /\ \A q \in SearchInputs, l \in LocationInputs, k \in SkillFilterInputs,
        n \in PageInputs, m \in LimitInputs :
       \A u \in Listed(Browse(q, l, k, n, m).users) : profile[u].is_public
  /\ \A u \in Users : ~profile[u].is_public =>
       /\ ProfileLookup(Lower(u)) = "NotFound"
       /\ ProfileLookup(Upper(u)) = "NotFound"

\* A private member whom the filters sent would match, left out of a
\* browse answer that lists another member.
C20_Witness ==
  \E u \in Users, q \in SearchInputs, k \in SkillFilterInputs :
    /\ ~profile[u].is_public
    /\ q # NoText /\ k # NoText
    /\ RegexTest(q, profile[u].name) \/ RegexTest(q, profile[u].location)
    /\ \E rel \in Relations : \E a \in DOMAIN Rel(rel) :
         /\ Rel(rel)[a].user_id = u
         /\ RegexTest(k, SkillName(Rel(rel)[a].skill_id))
    /\ Browse(q, NoText, k, 1, 10).status = "Ok"
    /\ Browse(q, NoText, k, 1, 10).users # <<>>
    /\ u \notin Listed(Browse(q, NoText, k, 1, 10).users)

\* C21 as stated: every listing call of a user who is not banned returns
\* all stored requests, and only those, in which the user takes part in the
\* direction asked for and with the status asked for, newest first.
Matching(c, st, ty) ==
  {i \in DOMAIN swaps :
     /\ \/ ty \in {"all", "sent"} /\ swaps[i].requester_id = c
        \/ ty \in {"all", "received"} /\ swaps[i].recipient_id = c
     /\ st # "" => swaps[i].status = st}

NewestFirst(q) == \A a \in DOMAIN q, b \in DOMAIN q : a < b => q[a] > q[b]

Response(p) ==
  CASE inflight[p].op \in {"create", "rate"} -> "Ok"
    [] inflight[p].op = "add" -> AddResult(p)
    [] OTHER -> TransitionResult(p)

Answered(p) == inflight[p] # Idle /\ inflight'[p] = Idle

C22_FailureWritesNothing ==
  [][/\ \A p \in Procs :
          (inflight[p] = Idle /\ inflight'[p] # Idle) => UNCHANGED store
     /\ \A p \in Procs :
          (Answered(p) /\ Response(p) # "Ok") => UNCHANGED store
     /\ store' # store =>
          \/ \E p \in Procs : Answered(p) /\ Response(p) = "Ok"
          \/ \E u \in BanInputs, b \in IsBannedInputs :
               BanCheck(Admin, u, b) = "Ok" /\ Ban(Admin, u, b)
          \/ \E rel \in Relations, c \in Users, a \in AssocIdInputs :
               RemoveCheck(rel, c, a) = "Ok" /\ Remove(rel, c, a)]_vars

\* Requests about to be answered with a failure: an add whose pair was
\* saved by an overlapping add, a cancel whose status the schema refuses.
C22_Witness ==
  \/ \E p \in Procs : /\ inflight[p].op = "add"
                       /\ Response(p) = "ServerError"
                       /\ "u2" \in banned
  \/ \E p \in Procs : /\ inflight[p].op = "cancel"
                       /\ Response(p) = "ServerError"
                       /\ \E i \in DOMAIN swaps : swaps[i].status = "accepted"

\* C23: a login for an account that is not banned yields a token only when
\* the password sent matches the stored one (a wrong or a missing password
\* yields none), and a login for a banned account is refused.
C23_LoginNeedsPassword ==
  \A e \in DOMAIN profile, w \in PasswordInputs :
    /\ e \in banned =>
         Login(e, w).status # "Ok" /\ Login(e, w).token = NoToken
    /\ ~compare(w, profile[e].password) => Login(e, w).token = NoToken

\* C24: the admin's statistics request succeeds and reports the number of
\* users and of banned users, the number of swap requests by status, and the
\* average of all stored scores, 0 when there is none.
C24_StatsReported ==
  LET r == GetStats(Admin)
  IN  /\ r.status = "Ok"
      /\ r.totalUsers = Cardinality(DOMAIN profile)
      /\ r.bannedUsers = Cardinality(banned)
      /\ r.acceptedSwaps = CountSwaps("accepted")
      /\ r.pendingSwaps = CountSwaps("pending")
      /\ r.averageRating =
           IF ratings = EmptyBag THEN 0
           ELSE <<SumRatings(BagToSet(ratings)), BagCardinality(ratings)>>

\* C25: after a profile update of a user that asks for a private profile,
\* in any encoding of false a client sends, the stored is_public is false;
\* after one that asks for a public profile it is true; and a user is
\* hidden from browse and from the profile lookup exactly while the stored
\* flag is false (shown: by the routes that can read the associations).
FalseEncodings == {"false", "'false'", "'0'"}
TrueEncodings == {"true", "'true'", "'1'"}

C25_PrivacyTakesEffect ==
  /\ [][\A c \in Users, n \in NameInputs, l \in LocationUpdates :
          /\ \A b \in FalseEncodings :
               UpdateProfile(c, n, l, b) => ~profile'[c].is_public
          /\ \A b \in TrueEncodings :
               UpdateProfile(c, n, l, b) => profile'[c].is_public]_vars
  /\ [](\A u \in Users :
          /\ ~profile[u].is_public =>
               /\ ProfileLookup(Lower(u)) = "NotFound"
               /\ u \notin Listed(Browse(NoText, NoText, NoText, 1, 10).users)
          /\ profile[u].is_public /\ revision = "models" =>
               /\ ProfileLookup(Lower(u)) = "Ok"
               /\ u \in Listed(Browse(NoText, NoText, NoText, 1, 10).users))

\* C26: in every reachable state, accept, reject, cancel and rate requests
\* on one swap request interleaving as they may, each stored rating
\* references a swap request that is still stored and whose status is
\* accepted.
C26_RatingsOnAcceptedSwaps ==
  \A r \in BagToSet(ratings) :
    /\ r.swap_id \in DOMAIN swaps
    /\ swaps[r.swap_id].status = "accepted"

\* C27: in every reachable state the offered skill of each pending swap
\* request is a skill its requester lists as offered and its requested skill
\* is a skill its recipient lists as offered, also after a participant has
\* removed an offered association while the request was pending.
C27_PendingSkillsStillOffered ==
  \A i \in DOMAIN swaps :
    swaps[i].status = "pending" =>
      /\ Offers(swaps[i].requester_id, swaps[i].offered_skill_id)
      /\ Offers(swaps[i].recipient_id, swaps[i].requested_skill_id)

\* C28: an accept, a reject or a status-setting cancel that is answered with
\* success changes the status of the swap request it targets and nothing
\* else: the other fields of that request, every other swap request, the
\* ratings, the users and the associations stay as they were.
C28_TransitionChangesStatusOnly ==
  [][\A p \in Procs :
       (/\ AcceptCommit(p) \/ RejectCommit(p) \/ CancelCommit(p)
        /\ TransitionResult(p) = "Ok") =>
         LET target == inflight[p].swap_id
         IN /\ DOMAIN swaps' = DOMAIN swaps
            /\ swaps'[target] =
                 [swaps[target] EXCEPT !.status = swaps'[target].status]
            /\ swaps'[target].status \in {"accepted", "rejected", "cancelled"}
            /\ \A i \in DOMAIN swaps \ {target} : swaps'[i] = swaps[i]
            /\ UNCHANGED <<ratings, profile, banned, assocs, notices,
                           nextSwap>>]_vars

\* An accept and a reject have each succeeded while another request was
\* stored.
C28_Witness ==
  \E i, j \in DOMAIN swaps :
    /\ swaps[i].status = "accepted"
    /\ swaps[j].status = "rejected"
    /\ Proper(i) /\ Proper(j)

\* A pending request from a to b is stored.
PendingFromTo(a, b) ==
  \E i \in DOMAIN swaps : /\ swaps[i].requester_id = a
                          /\ swaps[i].recipient_id = b
                          /\ swaps[i].status = "pending"

\* C29: a create request is refused as a duplicate only while a pending
\* request from the same requester to the same recipient is stored.  Requests
\* of that ordered pair that were accepted, rejected or cancelled, and pending
\* requests in the opposite direction, never block it: a create that passes
\* the other checks is then let through.
C29_OnlyPendingBlocks ==
  \A c \in Users \ banned, r \in UserIdInputs :
    LET pending == PendingFromTo(c, CastObjectId(r))
    IN \A o \in SkillIdInputs, q \in SkillIdInputs :
         LET response == CreateCheck(c, r, o, q)
             passes == /\ isMongoId(o) /\ isMongoId(q)
                       /\ toString(c) # r
                       /\ CastObjectId(r) \notin banned
                       /\ Offers(c, CastObjectId(o))
                       /\ Offers(CastObjectId(r), CastObjectId(q))
         IN /\ response = "DuplicatePendingRequest" => pending
            /\ response # "next" /\ ~pending => ~passes

\* A request from one user to another has been settled and the same user
\* has a new pending request to the same recipient.
C29_Witness ==
  \E i, j \in DOMAIN swaps :
    /\ Proper(i)
    /\ swaps[i].status \in {"accepted", "rejected"}
    /\ swaps[j].status = "pending"
    /\ swaps[j].requester_id = swaps[i].requester_id
    /\ swaps[j].recipient_id = swaps[i].recipient_id

\* The encoding of a stored is_public flag as a JSON boolean.
Encoded(flag) == IF flag THEN "true" ELSE "false"

\* The step is a profile update by c: the request that carries the name,
\* the location and the is_public flag the step stores for c.
UpdatesProfile(c) ==
  UpdateProfile(c, profile'[c].name, profile'[c].location,
                Encoded(profile'[c].is_public))

\* C30: no step changes the is_admin flag of a stored user; a user who
\* registers is stored with is_admin false and is not banned; a profile
\* update changes nothing but the caller's own name, location and is_public
\* flag, and every change of these fields is the user's own profile update;
\* and the set of banned users changes only by a ban request that the admin
\* check lets through.
C30_FlagsProtected ==
  [][/\ \A u \in DOMAIN profile :
          /\ u \in DOMAIN profile'
          /\ profile'[u].is_admin = profile[u].is_admin
     /\ \A u \in DOMAIN profile' \ DOMAIN profile :
          ~profile'[u].is_admin /\ u \notin banned'
     /\ \A c \in DOMAIN profile :
          /\ UpdatesProfile(c) =>
               /\ DOMAIN profile' = DOMAIN profile
               /\ \A u \in DOMAIN profile \ {c} : profile'[u] = profile[u]
               /\ profile'[c].password = profile[c].password
               /\ banned' = banned
          /\ (\/ profile'[c].name # profile[c].name
              \/ profile'[c].location # profile[c].location
              \/ profile'[c].is_public # profile[c].is_public) =>
               UpdatesProfile(c)
     /\ banned' # banned =>
          \E c \in Callers, u \in BanInputs, b \in IsBannedInputs :
            requireAdmin(c) = "next" /\ Ban(c, u, b)]_vars

\* A new user has registered and made the profile private, and the admin
\* has banned a user.
C30_Witness ==
  /\ \E u \in NewUsers : u \in DOMAIN profile /\ ~profile[u].is_public
  /\ banned # {}

====
